---- MODULE Spec2Model ----
(***************************************************************************)
(* dns-ha: health-checked DNS records reconciled into an unbound zone     *)
(* file.  The module models                                                *)
(*   - the zone file on disk as a sequence of characters (tokens), read   *)
(*     by FsImpl.ReadConf and written by FsImpl.WriteConf,                *)
(*   - Unbound.UpdateIps, the reconciliation of one hostname,             *)
(*   - the status state machine (Initial / Healthy / Unhealthy),          *)
(*   - filterHealthyIps, the selection of the active records,             *)
(*   - RecordManager.CheckRecords, the tick of the controller.            *)
(* Go semantics assumed: per-iteration loop variables and the bounds      *)
(* check of slices.Insert (Go >= 1.22, which cmp.Or in the ICMP checker   *)
(* requires).                                                              *)
(***************************************************************************)
EXTENDS Integers, Sequences, FiniteSets, TLC

(***************************************************************************)
(* Bounds of the model.                                                    *)
(***************************************************************************)
\* lines of the zone file before the first UpdateIps (zone specification)
MaxLines == 3

\* UpdateIps calls in a run of the zone specification
MaxCalls == 2

\* largest threshold of a status policy (state machine and failover
\* specifications)
MaxStreak == 2

\* stale lines of h1 at the head of the zone file before the first tick
\* (controller specification)
MaxStaleLines == 3

\* failures of the file system and of unbound-checkconf in a run
MaxFaults == 1

\* Eval goroutines of one record in flight at which no further one is
\* started (run specification)
MaxInFlight == 2

(***************************************************************************)
(* Small helpers.                                                          *)
(***************************************************************************)
Max(S) == CHOOSE x \in S : \A y \in S : y <= x

SeqsUpTo(S, n) == UNION { [1..k -> S] : k \in 0..n }

Perms(S) == { p \in [1..Cardinality(S) -> S] : \A i, j \in 1..Cardinality(S) : p[i] = p[j] => i = j }

(***************************************************************************)
(* Addresses.  A parsed net.IP is an abstract value; String() gives its    *)
(* canonical text.                                                         *)
(***************************************************************************)
Ip4a == <<4, 1>>

Ip4b == <<4, 2>>

Ip6a == <<6, 1>>

IpString(ip) ==
  CASE ip = Ip4a -> "10.0.0.1"
    [] ip = Ip4b -> "10.0.0.2"
    [] ip = Ip6a -> "::1"

\* net.ParseIP: the address a text of the configuration stands for
ParseIP(text) ==
  CASE text = "10.0.0.1" -> Ip4a
    [] text = "10.0.0.2" -> Ip4b
    [] text \in {"::1", "0:0:0:0:0:0:0:1"} -> Ip6a

(***************************************************************************)
(* The configured records: hostname -> ordered records.  conf.Validate     *)
(* guarantees at least two records per hostname, unique priorities and     *)
(* unique addresses within a hostname.  managedRecords (a variable) is the  *)
(* configuration the RecordManager was built with.                         *)
(***************************************************************************)
DnsRecord(h, prio, typ, ip, ttl) ==
  [Hostname |-> h, Priority |-> prio, DnsType |-> typ, Ip |-> ip, Ttl |-> ttl]

rA1 == DnsRecord("h1", 2, "A", Ip4a, 30)

rA2 == DnsRecord("h1", 1, "A", Ip4b, 30)

rAAAA == DnsRecord("h1", 3, "AAAA", Ip6a, 30)

\* configured with the address written in full
rAAAAx == DnsRecord("h1", 1, "AAAA", ParseIP("0:0:0:0:0:0:0:1"), 30)

rB1 == DnsRecord("h2", 2, "A", Ip4a, 30)

rB2 == DnsRecord("h2", 1, "A", Ip4b, 30)

Hosts == {"h1", "h2"}

\* every record of the model, by hostname
ConfAll == [h \in Hosts |-> IF h = "h1" THEN <<rA2, rA1, rAAAA>> ELSE <<rB1, rB2>>]

\* one hostname with two A records and one AAAA record
ConfDual == [h \in {"h1"} |-> <<rA2, rA1, rAAAA>>]

\* one hostname with two A records
ConfOne == [h \in {"h1"} |-> <<rA2, rA1>>]

\* one hostname with two AAAA records whose addresses differ as texts of
\* the configuration (::1 and 0:0:0:0:0:0:0:1)
ConfAlias == [h \in {"h1"} |-> <<rAAAA, rAAAAx>>]

\* two hostnames with two A records each
ConfTwo == [h \in Hosts |-> IF h = "h1" THEN <<rA2, rA1>> ELSE <<rB1, rB2>>]

Range(s) == { s[i] : i \in 1..Len(s) }

RecordsOf(h) == Range(ConfAll[h])

(***************************************************************************)
(* Loading the configuration: conf.RecordConfig is what the file says      *)
(* about one record, NewDnsRecord parses it, getManagedDnsRecords builds   *)
(* the records of every hostname; main stops (log.Fatal) when the          *)
(* validation or the construction of a record reports an error.            *)
(***************************************************************************)
RecordConfig(ip, typ, prio, ttl) == [IP |-> ip, RecordType |-> typ, Prio |-> prio, Ttl |-> ttl]

\* net.IP.To4() # nil: the address is an IPv4 address
To4(ip) == ip[1] = 4

\* NewDnsRecord(conf): err tells whether an error is returned.  (The texts
\* of the model all parse; the tag validate:"ip" has rejected any other.)
NewDnsRecord(conf) ==
  LET parsed == ParseIP(conf.IP)
  IN  IF ~To4(parsed) /\ conf.RecordType # "AAAA"
      THEN [err |-> TRUE, Priority |-> 0, DnsType |-> "", Ip |-> parsed, Ttl |-> 0]
      ELSE [err |-> FALSE, Priority |-> conf.Prio, DnsType |-> conf.RecordType,
            Ip |-> parsed, Ttl |-> conf.Ttl]

NewManagedDnsRecord(hostname, record) ==
  DnsRecord(hostname, record.Priority, record.DnsType, record.Ip, record.Ttl)

\* Config.Validate: the tags of RecordConfig, at least two records per
\* hostname, no priority and no address text twice
Validate(records) ==
  \A h \in DOMAIN records :
    /\ Len(records[h]) >= 2
    /\ \A i \in 1..Len(records[h]) :
         /\ records[h][i].RecordType \in {"A", "AAAA"}
         /\ records[h][i].Prio # 0 /\ records[h][i].Prio >= 0 /\ records[h][i].Prio < 255
         /\ records[h][i].Ttl >= 1 /\ records[h][i].Ttl <= 3600
    /\ \A i, j \in 1..Len(records[h]) :
         i # j => /\ records[h][i].Prio # records[h][j].Prio
                  /\ records[h][i].IP # records[h][j].IP

\* getManagedDnsRecords(c): the records built, and whether an error is
\* returned with them
getManagedDnsRecords(c) ==
  [ret |-> [h \in DOMAIN c |->
              [i \in 1..Len(c[h]) |-> NewManagedDnsRecord(h, NewDnsRecord(c[h][i]))]],
   errs |-> \E h \in DOMAIN c : \E i \in 1..Len(c[h]) : NewDnsRecord(c[h][i]).err]

\* the texts a configuration file of the model can hold for a record of h1
LoadIps == {"10.0.0.1", "::1"}

LoadRecordConfigs ==
  { RecordConfig(ip, typ, prio, 30) : ip \in LoadIps, typ \in {"A", "AAAA"}, prio \in 1..2 }

\* the configuration files of the model: two records for hostname h1
LoadFiles == { [h \in {"h1"} |-> <<c1, c2>>] : c1, c2 \in LoadRecordConfigs }

\* the managedRecords run is called with: the files that pass Validate and
\* for which getManagedDnsRecords returns no error
LoadedConfigs ==
  { getManagedDnsRecords(c).ret : c \in { d \in LoadFiles : Validate(d) /\ ~getManagedDnsRecords(d).errs } }

AllRecords ==
  UNION { RecordsOf(h) : h \in Hosts } \cup Range(ConfAlias["h1"])
    \cup UNION { Range(m["h1"]) : m \in LoadedConfigs }

(***************************************************************************)
(* The zone file.  Its content is a sequence of tokens: a newline, a       *)
(* blank, or the text  local-data: "host ttl typ ip"  of one record.  A    *)
(* line is a sequence of tokens without newline.                           *)
(***************************************************************************)
Tok(k, h, ttl, typ, ip) == [k |-> k, host |-> h, ttl |-> ttl, typ |-> typ, ip |-> ip]

NL == Tok("nl", "", 0, "", "")

SP == Tok("sp", "", 0, "", "")

RecTok(h, ttl, typ, ip) == Tok("rec", h, ttl, typ, ip)

IsSpace(t) == t.k \in {"nl", "sp"}

RECURSIVE TrimLeft(_)
TrimLeft(s) ==
  IF s # <<>> /\ IsSpace(Head(s)) THEN TrimLeft(Tail(s)) ELSE s

RECURSIVE TrimRight(_)
TrimRight(s) ==
  IF s # <<>> /\ IsSpace(s[Len(s)]) THEN TrimRight(SubSeq(s, 1, Len(s) - 1)) ELSE s

TrimSpace(s) == TrimRight(TrimLeft(s))

\* strings.Split(s, "\n"): one more piece than there are newlines
RECURSIVE Split(_)
Split(s) ==
  IF \A i \in 1..Len(s) : s[i] # NL
  THEN <<s>>
  ELSE LET i == CHOOSE j \in 1..Len(s) : s[j] = NL /\ \A l \in 1..(j - 1) : s[l] # NL
       IN  <<SubSeq(s, 1, i - 1)>> \o Split(SubSeq(s, i + 1, Len(s)))

\* strings.Join(conf, "\n")
RECURSIVE Join(_)
Join(conf) ==
  IF conf = <<>> THEN <<>>
  ELSE IF Len(conf) = 1 THEN conf[1]
  ELSE conf[1] \o <<NL>> \o Join(Tail(conf))

ReadConf(content) == Split(TrimSpace(content))

WriteConf(conf) == Join(conf)

\* os.WriteFile: open with O_TRUNC, write, close.  res "ok" leaves the data.
\* An error leaves the old file (open failed), the empty file (truncated,
\* nothing written) or the data cut short.  A crash leaves the old file, the
\* empty file (killed between open and write) or the data.
WriteFile(old, data, res) ==
  IF res = "ok" THEN {data}
  ELSE IF res = "err" THEN {old, <<>>, SubSeq(data, 1, Len(data) - 1)}
  ELSE {old, <<>>, data}

(***************************************************************************)
(* Unbound.UpdateIps                                                       *)
(***************************************************************************)
recordToUnbound(hostname, record) ==
  <<RecTok(hostname, record.Ttl, record.DnsType, IpString(record.Ip))>>

\* strings.HasPrefix(line, `local-data: "<hostname> `)
HasPrefix(line, hostname) ==
  line # <<>> /\ line[1].k = "rec" /\ line[1].host = hostname

wantedRecords(hostname, records) == { recordToUnbound(hostname, r) : r \in records }

\* the index the scan leaves in wantedRecords[w] (0-based), -1 for nil
wantedIndex(lines, hostname, w) ==
  LET hits == { i \in 1..Len(lines) : HasPrefix(lines[i], hostname) /\ lines[i] = w }
  IN  IF hits = {} THEN -1 ELSE Max(hits) - 1

\* recordsToRemove marking no line
recordsToRemove_None(lines, hostname, wanted) == {}

recordsToRemove(lines, hostname, wanted) ==
  { i - 1 : i \in { j \in 1..Len(lines) : HasPrefix(lines[j], hostname) /\ lines[j] \notin wanted } }

RECURSIVE removeFrom(_, _, _)
removeFrom(slice, indicesToRemove, i) ==
  IF i > Len(slice) THEN <<>>
  ELSE (IF (i - 1) \in indicesToRemove THEN <<>> ELSE <<slice[i]>>)
       \o removeFrom(slice, indicesToRemove, i + 1)

\* removeIndices with the indices taken as 1-based
removeIndices_OneBased(slice, indicesToRemove) ==
  removeFrom(slice, { i + 1 : i \in indicesToRemove }, 1)

removeIndices(slice, indicesToRemove) == removeFrom(slice, indicesToRemove, 1)

\* slices.Insert(s, i, v...), defined for i <= len(s)
Insert(s, i, v) == SubSeq(s, 1, i) \o v \o SubSeq(s, i + 1, Len(s))

UpdateRes(res, changed, wrote, after, read, conf) ==
  [res |-> res, changed |-> changed, wrote |-> wrote, after |-> after,
   read |-> read, conf |-> conf]

\* the outcomes of WriteConf(conf) at the end of UpdateIps
WriteOutcomes(content, lines, conf, wres) ==
  { UpdateRes(IF wres = "ok" THEN "ok" ELSE IF wres = "err" THEN "writeerr" ELSE "crash",
              wres # "crash", TRUE, c, lines, conf)
      : c \in WriteFile(content, WriteConf(conf), wres) }

\* All outcomes of UpdateIps(hostname, records) on a file with the given
\* content.  env is what the file system does: "ok", "readerr" (ReadConf
\* fails), "err" (WriteConf fails) or "crash" (the process dies in WriteConf).
\* The iteration order of the map wantedRecords decides the order of the
\* missing lines and which present line gives the insertion index.
UpdateIps(content, hostname, records, env) ==
  LET lines   == ReadConf(content)
      wanted  == wantedRecords(hostname, records)
      remove  == recordsToRemove(lines, hostname, wanted)
      missing == { w \in wanted : wantedIndex(lines, hostname, w) = -1 }
      present == wanted \ missing
      kept    == IF remove # {} THEN removeIndices(lines, remove) ELSE lines
      idxs    == IF present = {} THEN {0}
                 ELSE { wantedIndex(lines, hostname, w) : w \in present }
      wres    == env
  IN  IF env = "readerr" THEN { UpdateRes("readerr", FALSE, FALSE, content, <<>>, <<>>) }
      ELSE IF missing = {} /\ remove = {}
      THEN { UpdateRes("noop", FALSE, FALSE, content, lines, <<>>) }
      ELSE IF Cardinality(missing) = Cardinality(records)
      THEN UNION { WriteOutcomes(content, lines, kept \o m, wres) : m \in Perms(missing) }
      ELSE UNION { IF idx > Len(kept)
                   THEN { UpdateRes("panic", FALSE, FALSE, content, lines, <<>>) }
                   ELSE UNION { WriteOutcomes(content, lines, Insert(kept, idx, m), wres)
                                  : m \in Perms(missing) }
                     : idx \in idxs }

(***************************************************************************)
(* The status state machine.  A state is the struct of Initial, Healthy    *)
(* or Unhealthy: its name, its streak and the thresholds it was built      *)
(* with (lastState is used by Initial only).                               *)
(***************************************************************************)
InitialStateName == "initial"

HealthyStateName == "healthy"

UnhealthyStateName == "unhealthy"

StatusConfig(h, u, ih, iu) ==
  [HealthyStreak |-> h, UnhealthyStreak |-> u,
   InitialHealthyStreak |-> ih, InitialUnhealthyStreak |-> iu]

\* conf.StatusConfig: every threshold is validated gte=1
Policies ==
  { StatusConfig(h, u, ih, iu) : h \in 1..MaxStreak, u \in 1..MaxStreak,
                                 ih \in 1..MaxStreak, iu \in 1..MaxStreak }

State(name, streak, last, h, u) ==
  [name |-> name, currentStreak |-> streak, lastState |-> last,
   cfgStreakUntilHealthy |-> h, cfgStreakUntilUnhealthy |-> u]

NewUnknownState(opts) ==
  State(InitialStateName, opts.InitialHealthyStreak, "", opts.HealthyStreak, opts.UnhealthyStreak)

newHealthy(healthyStreak, unhealthyStreak) ==
  State(HealthyStateName, healthyStreak, "", healthyStreak, unhealthyStreak)

newUnhealthy(healthyStreak, unhealthyStreak) ==
  State(UnhealthyStateName, unhealthyStreak, "", healthyStreak, unhealthyStreak)

\* Each method returns the state the record holds afterwards: the receiver
\* after its update, or the state handed to SetState.
InitialHealthy(s) ==
  LET s1 == IF s.lastState = UnhealthyStateName
            THEN [s EXCEPT !.currentStreak = s.cfgStreakUntilHealthy,
                           !.lastState = HealthyStateName]
            ELSE s
      s2 == [s1 EXCEPT !.currentStreak = @ - 1]
  IN  IF s2.currentStreak <= 0
      THEN newHealthy(s.cfgStreakUntilHealthy, s.cfgStreakUntilUnhealthy)
      ELSE s2

InitialUnhealthy(s) ==
  LET s1 == IF s.lastState = HealthyStateName
            THEN [s EXCEPT !.currentStreak = s.cfgStreakUntilUnhealthy,
                           !.lastState = UnhealthyStateName]
            ELSE s
      s2 == [s1 EXCEPT !.currentStreak = @ - 1]
  IN  IF s2.currentStreak <= 0
      THEN newUnhealthy(s.cfgStreakUntilHealthy, s.cfgStreakUntilUnhealthy)
      ELSE s2

InitialError(s) == s

\* Healthy.Healthy without the reset of the streak
HealthyHealthy_NoReset(s) == s

HealthyHealthy(s) == [s EXCEPT !.currentStreak = s.cfgStreakUntilUnhealthy]

\* Healthy.Unhealthy handing a new initial state to SetState
HealthyUnhealthy_BackToInitial(s) ==
  LET s1 == [s EXCEPT !.currentStreak = @ - 1]
  IN  IF s1.currentStreak <= 0
      THEN State(InitialStateName, s.cfgStreakUntilUnhealthy, "",
                 s.cfgStreakUntilHealthy, s.cfgStreakUntilUnhealthy)
      ELSE s1

HealthyUnhealthy(s) ==
  LET s1 == [s EXCEPT !.currentStreak = @ - 1]
  IN  IF s1.currentStreak <= 0
      THEN newUnhealthy(s.cfgStreakUntilHealthy, s.cfgStreakUntilUnhealthy)
      ELSE s1

\* Healthy.Error leaving the streak alone
HealthyError_Ignored(s) == s

HealthyError(s) ==
  LET s1 == [s EXCEPT !.currentStreak = @ - 1]
  IN  IF s1.currentStreak <= 0
      THEN newUnhealthy(s.cfgStreakUntilHealthy, s.cfgStreakUntilUnhealthy)
      ELSE s1

UnhealthyHealthy(s) ==
  LET s1 == [s EXCEPT !.currentStreak = @ - 1]
  IN  IF s1.currentStreak <= 0
      THEN newHealthy(s.cfgStreakUntilHealthy, s.cfgStreakUntilUnhealthy)
      ELSE s1

UnhealthyUnhealthy(s) == [s EXCEPT !.currentStreak = s.cfgStreakUntilUnhealthy]

UnhealthyError(s) == [s EXCEPT !.currentStreak = s.cfgStreakUntilUnhealthy]

\* ManagedDnsRecord.Eval: the probe answers healthy ("H"), unhealthy ("U")
\* or fails ("E"); the state's method of that name is called.
Inputs == {"H", "U", "E"}

EvalStatus(s, input) ==
  CASE s.name = InitialStateName /\ input = "H" -> InitialHealthy(s)
    [] s.name = InitialStateName /\ input = "U" -> InitialUnhealthy(s)
    [] s.name = InitialStateName /\ input = "E" -> InitialError(s)
    [] s.name = HealthyStateName /\ input = "H" -> HealthyHealthy(s)
    [] s.name = HealthyStateName /\ input = "U" -> HealthyUnhealthy(s)
    [] s.name = HealthyStateName /\ input = "E" -> HealthyError(s)
    [] s.name = UnhealthyStateName /\ input = "H" -> UnhealthyHealthy(s)
    [] s.name = UnhealthyStateName /\ input = "U" -> UnhealthyUnhealthy(s)
    [] s.name = UnhealthyStateName /\ input = "E" -> UnhealthyError(s)

(***************************************************************************)
(* filterHealthyIps                                                        *)
(***************************************************************************)
\* the comparator with its arguments swapped: cmp.Compare(a.Priority, b.Priority)
PriorityComparator_Ascending(a, b) ==
  IF a.Priority < b.Priority THEN -1 ELSE IF a.Priority > b.Priority THEN 1 ELSE 0

\* cmp.Compare(b.Priority, a.Priority)
PriorityComparator(a, b) ==
  IF b.Priority < a.Priority THEN -1 ELSE IF b.Priority > a.Priority THEN 1 ELSE 0

\* slices.SortFunc(s, PriorityComparator), as an insertion sort
RECURSIVE InsertSorted(_, _)
InsertSorted(s, e) ==
  IF s = <<>> THEN <<e>>
  ELSE IF PriorityComparator(e, Head(s)) < 0 THEN <<e>> \o s
  ELSE <<Head(s)>> \o InsertSorted(Tail(s), e)

RECURSIVE SortFunc(_)
SortFunc(s) == IF s = <<>> THEN <<>> ELSE InsertSorted(SortFunc(Tail(s)), Head(s))

\* the records of ips in state healthy, by DnsType, in the order of ips
healthyIps(ips, st, typ) ==
  SelectSeq(ips, LAMBDA ip : st[ip].name = HealthyStateName /\ ip.DnsType = typ)

\* filterHealthyIps taking every record that is not unhealthy
filterHealthyIps_NotUnhealthy(hostname, ips, st) ==
  { r \in Range(ips) : st[r].name # UnhealthyStateName /\
      \A q \in Range(ips) :
        (q.DnsType = r.DnsType /\ st[q].name # UnhealthyStateName) => q.Priority <= r.Priority }

\* the records returned (their order is the iteration order of a map)
filterHealthyIps(hostname, ips, st) ==
  { SortFunc(healthyIps(ips, st, typ))[1] :
      typ \in { t \in {"A", "AAAA"} : healthyIps(ips, st, t) # <<>> } }

\* isInitialState answering false for every hostname
isInitialState_Never(ips, st) == FALSE

isInitialState(ips, st) == \A i \in 1..Len(ips) : st[ips[i]].name = InitialStateName

\* the keys of the map activeIps when filterHealthyIps returns
activeIps(hostname, ips, st) == { IpString(r.Ip) : r \in filterHealthyIps(hostname, ips, st) }

\* the gauges updateMetrics sets for a hostname: ActiveRecord by the label
\* ip, ActiveRecords and ConfiguredRecords
updateMetrics(hostname, ips, active) ==
  [ActiveRecord |-> [s \in { IpString(ips[i].Ip) : i \in 1..Len(ips) } |->
                       IF s \in active THEN 1 ELSE 0],
   ActiveRecords |-> Cardinality({ i \in 1..Len(ips) : IpString(ips[i].Ip) \in active }),
   ConfiguredRecords |-> Len(ips)]

(***************************************************************************)
(* State.                                                                  *)
(***************************************************************************)
VARIABLES
  file,        \* content of the zone file on disk
  proc,        \* "running", "panicked" (Go panic), "crashed" (killed) or
               \* "exited" (os.Exit)
  zoneCall,    \* the last UpdateIps call: arguments and outcome (history)
  prevCall,    \* the UpdateIps call before it, if it wrote the file without
               \* error: hostname, records, result (history)
  nCalls,      \* number of UpdateIps calls made (zone specification)
  managedRecords, \* RecordManager.managedRecords: hostname -> records
  statusOpts,  \* the conf.StatusConfig the records were built with
  status,      \* record -> its status.State
  run,         \* record -> the inputs it got since it entered its state or
               \* since the last input that reset its streak (history)
  unhealthyHosts, \* RecordManager.unhealthyHosts
  pc,          \* where CheckRecords is: "idle", "update", "return"
  hostsTodo,   \* hostnames the loop of CheckRecords has not yet visited
  restartServiceNeeded, \* the local of CheckRecords
  tickLog,     \* hostname -> what updateRecords did in this tick (history)
  svcCalls,    \* the calls made to the Service in this tick, each with
               \* "ok" or "error" for what it returned (history)
  errInc,      \* the labels of metrics.Errors incremented in this tick
  lastInvalid, \* hostname -> records and file content of its last reconcile
               \* if that wrote the file and the validation failed (history)
  nFaults,     \* number of failures of the file system and of the validator
               \* so far
  cancelled,   \* the context of run is cancelled
  loop,        \* the goroutine of the tick loop: "first" (before its first
               \* CheckRecords), "loop" or "returned"
  spawnTodo,   \* records runHealthchecks has not yet started an Eval for
  evals,       \* record -> number of its Eval goroutines in flight
  spawned      \* record -> number of Eval goroutines started for it in this
               \* tick (history)

zoneVars == <<file, proc, zoneCall, prevCall, nCalls, nFaults>>

fsmVars == <<managedRecords, statusOpts, status, run>>

tickVars ==
  <<unhealthyHosts, pc, hostsTodo, restartServiceNeeded, tickLog, svcCalls, errInc,
    lastInvalid>>

runVars == <<cancelled, loop, spawnTodo, evals, spawned>>

vars == <<zoneVars, fsmVars, tickVars, runVars>>

NoCall ==
  [host |-> "", desired |-> {}, before |-> <<>>, res |-> "none", changed |-> FALSE,
   wrote |-> FALSE, read |-> <<>>, conf |-> <<>>]

CallOf(hostname, records, before, o) ==
  [host |-> hostname, desired |-> records, before |-> before, res |-> o.res,
   changed |-> o.changed, wrote |-> o.wrote, read |-> o.read, conf |-> o.conf]

Brief(call) == [host |-> call.host, desired |-> call.desired, res |-> call.res]

\* a process that an error returned by UpdateIps ends
ProcAfter_ErrorFatal(o) ==
  IF o.res \in {"panic", "readerr", "writeerr"} THEN "panicked"
  ELSE IF o.res = "crash" THEN "crashed" ELSE "running"

\* the process after UpdateIps gave outcome o: a panic and a crash of the
\* machine end it, a returned error does not
ProcAfter(o) ==
  IF o.res = "panic" THEN "panicked" ELSE IF o.res = "crash" THEN "crashed" ELSE "running"

NoRun == [from |-> InitialStateName, kind |-> "entered", n |-> 0, lost |-> 0]

\* the history of a record after an input: n counts the inputs that drive the
\* record out of the state it is in (H when unhealthy, U when healthy) since
\* it entered the state ("entered") or since the opposite input ("reset",
\* lost being the count that input wiped out); an E in between makes the
\* run "mixed".  In state initial n counts the inputs since startup while
\* they are all H ("allH") or all U ("allU"); when the inputs since startup,
\* two or more, are H and U in strict alternation the run is "altH" or
\* "altU" by the last of them; when they are all E it is "allE"; any other
\* input makes the run "mixed".
RunAfter(old, r, input) ==
  LET base == IF r.from # old.name
              THEN [from |-> old.name, kind |-> "entered", n |-> 0, lost |-> 0]
              ELSE r
      drive == IF old.name = HealthyStateName THEN "U" ELSE "H"
      all == IF input = "H" THEN "allH" ELSE "allU"
      flipped == IF input = "H"
                 THEN {"altU"} \cup (IF base.n = 1 THEN {"allU"} ELSE {})
                 ELSE {"altH"} \cup (IF base.n = 1 THEN {"allH"} ELSE {})
  IN  IF old.name = InitialStateName
      THEN IF input = "E"
           THEN [base EXCEPT !.kind = IF @ \in {"entered", "allE"} THEN "allE" ELSE "mixed"]
           ELSE IF base.kind \in {"entered", all}
           THEN [base EXCEPT !.kind = all, !.n = @ + 1]
           ELSE IF input # "E" /\ base.kind \in flipped
           THEN [base EXCEPT !.kind = IF input = "H" THEN "altH" ELSE "altU"]
           ELSE [base EXCEPT !.kind = "mixed"]
      ELSE IF input = drive THEN [base EXCEPT !.n = @ + 1]
      ELSE IF input = "E" /\ old.name = HealthyStateName
           THEN [base EXCEPT !.n = @ + 1, !.kind = "mixed"]
      ELSE [from |-> old.name, kind |-> IF input = "E" THEN "resetE" ELSE "reset",
            n |-> 0, lost |-> base.n]

\* what one reconcile of a tick did: the records selected, the result of
\* UpdateIps ("none": not called) and of ValidateConfig, the value returned,
\* whether the file is the same after the reconcile as before it, and
\* whether the reconcile of the tick before failed in the validation, with
\* the same records and file (repeat), or in the write (retry), and the
\* gauges the reconcile set
NoLog ==
  [done |-> FALSE, sel |-> {}, res |-> "none", valid |-> "none", ret |-> FALSE,
   repeat |-> FALSE, same |-> TRUE, retry |-> FALSE, metrics |-> <<>>]

\* the failure of the last reconcile of a hostname: "invalid" (ValidateConfig
\* failed), "writeerr" (WriteConf failed) or "none"
NoInvalid == [desired |-> {}, content |-> <<>>, kind |-> "none"]

\* the state of the controller before its first tick
ControllerInit ==
  /\ unhealthyHosts = [h \in Hosts |-> FALSE]
  /\ pc = "idle"
  /\ hostsTodo = {}
  /\ restartServiceNeeded = FALSE
  /\ tickLog = [h \in Hosts |-> NoLog]
  /\ svcCalls = <<>>
  /\ errInc = {}
  /\ lastInvalid = [h \in Hosts |-> NoInvalid]
  /\ nFaults = 0
  /\ cancelled = FALSE
  /\ loop = "first"
  /\ spawnTodo = {}
  /\ evals = [r \in AllRecords |-> 0]
  /\ spawned = [r \in AllRecords |-> 0]

RecordsInit(opts) ==
  /\ statusOpts = opts
  /\ status = [r \in AllRecords |-> NewUnknownState(opts)]
  /\ run = [r \in AllRecords |-> NoRun]

\* what the file system does to one UpdateIps call
FsEnv == {"ok", "readerr", "err", "crash"}

(***************************************************************************)
(* Zone specification: UpdateIps called on every bounded file content.     *)
(***************************************************************************)
StaleLine == <<RecTok("h1", 60, "A", IpString(Ip4a))>>

LineShapes ==
  { recordToUnbound("h1", rA1), StaleLine, recordToUnbound("h2", rB1), <<>> }

\* the lines ls with line i, when it is a line of h1, indented by one blank
Indent(ls, i) ==
  IF i \in 1..Len(ls) /\ HasPrefix(ls[i], "h1")
  THEN [ls EXCEPT ![i] = <<SP>> \o @]
  ELSE ls

\* the files UpdateIps may find: up to MaxLines lines, at most one of them
\* indented
ZoneFiles ==
  { Join(Indent(ls, i)) : ls \in SeqsUpTo(LineShapes, MaxLines), i \in 0..MaxLines }

\* the record sets updateRecords can hand to UpdateIps: not empty, one
\* record per family
Selections(h) ==
  { S \in SUBSET RecordsOf(h) : S # {} /\ \A r, q \in S : r.DnsType = q.DnsType => r = q }

ZoneInit ==
  /\ file \in ZoneFiles
  /\ proc = "running"
  /\ zoneCall = NoCall
  /\ prevCall = Brief(NoCall)
  /\ nCalls = 0
  /\ managedRecords = ConfAll
  /\ RecordsInit(StatusConfig(1, 1, 1, 1))
  /\ ControllerInit

ZoneUpdateIps(hostname, records, env) ==
  /\ proc = "running"
  /\ nCalls < MaxCalls
  /\ nFaults + (IF env # "ok" THEN 1 ELSE 0) <= MaxFaults
  /\ nFaults' = nFaults + (IF env # "ok" THEN 1 ELSE 0)
  /\ \E o \in UpdateIps(file, hostname, records, env) :
       /\ file' = o.after
       /\ proc' = ProcAfter(o)
       /\ zoneCall' = CallOf(hostname, records, file, o)
  /\ prevCall' = IF zoneCall.res = "ok" THEN Brief(zoneCall) ELSE Brief(NoCall)
  /\ nCalls' = nCalls + 1
  /\ UNCHANGED <<fsmVars, tickVars, runVars>>

\* the calls are made for hostname h1; the lines of h2 in the file are lines
\* of another hostname
ZoneNext ==
  \E records \in Selections("h1") :
    \E env \in FsEnv : ZoneUpdateIps("h1", records, env)

SpecZone == ZoneInit /\ [][ZoneNext]_vars

(***************************************************************************)
(* State machine specification: the records of hostname h2 are evaluated   *)
(* with every input sequence under every policy.                           *)
(***************************************************************************)
FsmInit ==
  /\ file = <<>>
  /\ proc = "running"
  /\ zoneCall = NoCall
  /\ prevCall = Brief(NoCall)
  /\ nCalls = 0
  /\ managedRecords = ConfAll
  /\ \E opts \in Policies : RecordsInit(opts)
  /\ ControllerInit

FsmEval(r, input) ==
  /\ status' = [status EXCEPT ![r] = EvalStatus(status[r], input)]
  /\ run' = [run EXCEPT ![r] = RunAfter(status[r], run[r], input)]
  /\ UNCHANGED <<zoneVars, managedRecords, statusOpts, tickVars, runVars>>

FsmNext == \E r \in RecordsOf("h2") : \E input \in Inputs : FsmEval(r, input)

SpecFsm == FsmInit /\ [][FsmNext]_vars

(***************************************************************************)
(* TCP probe specification: the records of hostname h2 are evaluated with  *)
(* the answers of TcpChecker.IsHealthy to every result of the dial.        *)
(***************************************************************************)
\* what net.DialTimeout returns: a connection, ECONNREFUSED, a timeout
\* error, or another error
TcpDials == {"connected", "refused", "timeout", "ioerr"}

\* TcpChecker.IsHealthy: (true, nil) for a connection and for
\* ECONNREFUSED, (false, err) for every other error of the dial
TcpIsHealthy(dial) ==
  IF dial = "connected" THEN [isHealthy |-> TRUE, err |-> FALSE]
  ELSE IF dial = "refused" THEN [isHealthy |-> TRUE, err |-> FALSE]
  ELSE [isHealthy |-> FALSE, err |-> TRUE]

\* the method of the state Eval calls for the answer of a probe
EvalInput(res) == IF res.err THEN "E" ELSE IF res.isHealthy THEN "H" ELSE "U"

\* Eval of record r with a TCP health check whose dial returned dial
TcpEval(r, dial) ==
  /\ status' = [status EXCEPT ![r] = EvalStatus(status[r], EvalInput(TcpIsHealthy(dial)))]
  /\ run' = [run EXCEPT ![r] = RunAfter(status[r], run[r], EvalInput(TcpIsHealthy(dial)))]
  /\ UNCHANGED <<zoneVars, managedRecords, statusOpts, tickVars, runVars>>

TcpNext == \E r \in RecordsOf("h2") : \E dial \in TcpDials : TcpEval(r, dial)

SpecTcp == FsmInit /\ [][TcpNext]_vars

(***************************************************************************)
(* Controller specification: the ticks of RecordManager.CheckRecords.      *)
(***************************************************************************)
TickPolicies == { StatusConfig(1, 1, 1, 1) }

\* the lines that may follow the stale lines of a file: the line of rA1, a
\* stale line that is indented, or nothing
TickTails == { <<>>, <<recordToUnbound("h1", rA1)>>, <<<<SP>> \o StaleLine>> }

\* the files the controller may find: the empty file, and MaxStaleLines
\* stale lines of h1 followed by one of the tails
TickFiles ==
  { <<>> } \cup { Join([i \in 1..MaxStaleLines |-> StaleLine] \o tail) : tail \in TickTails }

\* the configurations and zone files the controller is started with: the
\* one-hostname configurations on every file, the two-hostname
\* configuration on the empty file and on the file that ends with the line
\* of rA1
TickStarts ==
  ({ConfDual, ConfAlias} \X TickFiles)
    \cup ({ConfTwo} \X { <<>>, Join([i \in 1..MaxStaleLines |-> StaleLine]
                                       \o <<recordToUnbound("h1", rA1)>>) })

Configured == UNION { Range(managedRecords[h]) : h \in DOMAIN managedRecords }

TickInit ==
  /\ \E start \in TickStarts :
       /\ managedRecords = start[1]
       /\ file = start[2]
  /\ proc = "running"
  /\ zoneCall = NoCall
  /\ prevCall = Brief(NoCall)
  /\ nCalls = 0
  /\ \E opts \in TickPolicies :
       /\ statusOpts = opts
       /\ status = [r \in AllRecords |-> NewUnknownState(opts)]
  /\ run = [r \in {} |-> NoRun]
  /\ ControllerInit

\* the policies of the failover runs: every pair of healthy_streak and
\* unhealthy_streak with initial streaks of 1, and every
\* initial_healthy_streak with the other streaks 1
FailoverPolicies ==
  { StatusConfig(h, u, 1, 1) : h \in 1..MaxStreak, u \in 1..MaxStreak }
    \cup { StatusConfig(1, 1, ih, 1) : ih \in 1..MaxStreak }

\* the controller of one hostname with two A records, started on an empty
\* zone file, on one that holds the line of the record of highest priority,
\* or on one that holds an indented stale line before it; the history run
\* is kept for its records
FailoverInit ==
  /\ file \in { <<>>, Join(<<recordToUnbound("h1", rA1)>>),
                Join(<<<<SP>> \o StaleLine, recordToUnbound("h1", rA1)>>) }
  /\ proc = "running"
  /\ zoneCall = NoCall
  /\ prevCall = Brief(NoCall)
  /\ nCalls = 0
  /\ managedRecords = ConfOne
  /\ \E opts \in FailoverPolicies :
       /\ statusOpts = opts
       /\ status = [r \in AllRecords |-> NewUnknownState(opts)]
  /\ run = [r \in Range(ConfOne["h1"]) |-> NoRun]
  /\ ControllerInit

\* the controller of a hostname whose two records were loaded from a
\* configuration file, started on an empty zone file
LoadInit ==
  /\ file = <<>>
  /\ proc = "running"
  /\ zoneCall = NoCall
  /\ prevCall = Brief(NoCall)
  /\ nCalls = 0
  /\ managedRecords \in LoadedConfigs
  /\ \E opts \in TickPolicies :
       /\ statusOpts = opts
       /\ status = [r \in AllRecords |-> NewUnknownState(opts)]
  /\ run = [r \in {} |-> NoRun]
  /\ ControllerInit

\* CheckRecords starts: runHealthchecks evaluates every record once, each
\* with the answer of its probe, and waits for all of them.  The history
\* run follows the records for which it is kept.
runHealthchecks(in) ==
  /\ proc = "running"
  /\ pc = "idle"
  /\ status' = [r \in AllRecords |->
                  IF r \in DOMAIN in THEN EvalStatus(status[r], in[r]) ELSE status[r]]
  /\ run' = [r \in DOMAIN run |->
               IF r \in DOMAIN in THEN RunAfter(status[r], run[r], in[r]) ELSE run[r]]
  /\ pc' = "update"
  /\ hostsTodo' = DOMAIN managedRecords
  /\ restartServiceNeeded' = FALSE
  /\ UNCHANGED <<zoneVars, managedRecords, statusOpts, unhealthyHosts, tickLog,
                 svcCalls, errInc, lastInvalid, runVars>>

\* updateRecords ignoring the error UpdateIps returned
updateRecordsResult_IgnoreErr(o, vres) == o.changed /\ vres = "ok"

\* the value updateRecords returns after UpdateIps gave outcome o and
\* ValidateConfig gave vres
updateRecordsResult(o, vres) == o.res = "ok" /\ o.changed /\ vres = "ok"

\* the file after updateRecords
updateRecordsFile(o, vres) == o.after

\* one iteration of the loop of CheckRecords: updateRecords(hostname, ips).
\* env is what the file system does, vres the result of ValidateConfig
\* (exec.CommandContext: with the context cancelled the command is not run
\* and ValidateConfig fails, which is no fault of unbound-checkconf).
updateRecords(hostname, env, vres) ==
  LET ips == managedRecords[hostname]
      ipsToUpdate == filterHealthyIps(hostname, ips, status)
  IN
  /\ proc = "running"
  /\ pc = "update"
  /\ hostname \in hostsTodo
  /\ hostsTodo' = hostsTodo \ {hostname}
  /\ IF ipsToUpdate = {}
     THEN /\ env = "ok" /\ vres = "ok"
          /\ unhealthyHosts' =
               IF ~unhealthyHosts[hostname] /\ ~isInitialState(ips, status)
               THEN [unhealthyHosts EXCEPT ![hostname] = TRUE]
               ELSE unhealthyHosts
          /\ UNCHANGED <<file, proc, zoneCall, restartServiceNeeded, errInc, nFaults>>
          /\ tickLog' = [tickLog EXCEPT ![hostname] =
               [NoLog EXCEPT !.done = TRUE, !.same = (file' = file),
                             !.metrics = updateMetrics(hostname, ips, {})]]
          /\ lastInvalid' = [lastInvalid EXCEPT ![hostname] = NoInvalid]
     ELSE \E o \in UpdateIps(file, hostname, ipsToUpdate, env) :
          LET validated == o.res = "ok" /\ o.changed
              ret == updateRecordsResult(o, vres)
              failed == (IF env # "ok" THEN 1 ELSE 0)
                          + (IF validated /\ vres # "ok" /\ ~cancelled THEN 1 ELSE 0)
          IN
          /\ validated \/ vres = "ok"
          /\ (validated /\ cancelled) => vres = "fail"
          /\ nFaults + failed <= MaxFaults
          /\ nFaults' = nFaults + failed
          /\ unhealthyHosts' = [unhealthyHosts EXCEPT ![hostname] = FALSE]
          /\ file' = updateRecordsFile(o, vres)
          /\ proc' = ProcAfter(o)
          /\ zoneCall' = CallOf(hostname, ipsToUpdate, file, o)
          /\ errInc' = errInc
               \cup (IF o.res \in {"readerr", "writeerr"}
                     THEN {<<hostname, "update_ips">>} ELSE {})
               \cup (IF validated /\ vres # "ok"
                     THEN {<<hostname, "dns_invalid_config">>} ELSE {})
          /\ restartServiceNeeded' = (restartServiceNeeded \/ ret)
          /\ tickLog' = [tickLog EXCEPT ![hostname] =
               [done |-> TRUE, sel |-> ipsToUpdate, res |-> o.res,
                valid |-> IF validated THEN vres ELSE "none", ret |-> ret,
                repeat |-> /\ lastInvalid[hostname].kind = "invalid"
                           /\ lastInvalid[hostname].desired = ipsToUpdate
                           /\ lastInvalid[hostname].content = file,
                same |-> file' = file,
                retry |-> lastInvalid[hostname].kind = "writeerr",
                metrics |-> updateMetrics(hostname, ips,
                                          activeIps(hostname, ips, status))]]
          /\ lastInvalid' = [lastInvalid EXCEPT ![hostname] =
               IF validated /\ vres # "ok"
               THEN [desired |-> ipsToUpdate, content |-> o.after, kind |-> "invalid"]
               ELSE IF o.res = "writeerr"
               THEN [NoInvalid EXCEPT !.kind = "writeerr"]
               ELSE NoInvalid]
  /\ UNCHANGED <<prevCall, nCalls, fsmVars, svcCalls, pc, runVars>>

\* what a call of the Service returned: nil ("ok") or an error, which for
\* Reload is ErrReloadNotSupported or another error
Returned(res) == IF res = "ok" THEN "ok" ELSE "error"

\* restartService calling Restart whatever Reload returned
restartServiceCalls_AlwaysRestart(reloadRes, restartRes) ==
  <<<<"Reload", Returned(reloadRes)>>, <<"Restart", Returned(restartRes)>>>>

\* the calls restartService makes: Reload, and Restart when Reload
\* returned an error
restartServiceCalls(reloadRes, restartRes) ==
  IF reloadRes = "ok" THEN <<<<"Reload", "ok">>>>
  ELSE <<<<"Reload", "error">>, <<"Restart", Returned(restartRes)>>>>

\* the end of CheckRecords when a reconcile reported a change:
\* restartService calls Reload and, when that fails, Restart
restartService(reloadRes, restartRes) ==
  /\ proc = "running"
  /\ pc = "update"
  /\ hostsTodo = {}
  /\ restartServiceNeeded
  /\ reloadRes = "ok" => restartRes = "ok"
  /\ svcCalls' = restartServiceCalls(reloadRes, restartRes)
  /\ errInc' = errInc \cup (IF reloadRes # "ok" /\ restartRes # "ok"
                            THEN {<<"", "service_restart">>} ELSE {})
  /\ pc' = "return"
  /\ UNCHANGED <<zoneVars, fsmVars, unhealthyHosts, hostsTodo, restartServiceNeeded,
                 tickLog, lastInvalid, runVars>>

\* the end of CheckRecords when no reconcile reported a change
noRestart ==
  /\ proc = "running"
  /\ pc = "update"
  /\ hostsTodo = {}
  /\ ~restartServiceNeeded
  /\ pc' = "return"
  /\ UNCHANGED <<zoneVars, fsmVars, unhealthyHosts, hostsTodo, restartServiceNeeded,
                 tickLog, svcCalls, errInc, lastInvalid, runVars>>

\* CheckRecords returns to the loop of run, which waits for the ticker; the
\* history of the tick is dropped
CheckRecordsReturn ==
  /\ proc = "running"
  /\ pc = "return"
  /\ pc' = "idle"
  /\ tickLog' = [h \in Hosts |-> NoLog]
  /\ svcCalls' = <<>>
  /\ errInc' = {}
  /\ zoneCall' = NoCall
  /\ UNCHANGED <<file, proc, prevCall, nCalls, fsmVars, unhealthyHosts, hostsTodo,
                 restartServiceNeeded, lastInvalid, nFaults, runVars>>

TickNext ==
  \/ \E in \in [Configured -> Inputs] : runHealthchecks(in)
  \/ \E h \in Hosts : \E env \in FsEnv \ {"crash"} : \E vres \in {"ok", "fail"} :
       updateRecords(h, env, vres)
  \/ \E reloadRes \in {"ok", "notsupported", "err"} : \E restartRes \in {"ok", "err"} :
       restartService(reloadRes, restartRes)
  \/ noRestart
  \/ CheckRecordsReturn

SpecTick == TickInit /\ [][TickNext]_vars

\* Family specification: the ticks of the controller of one hostname with
\* records of both address families, started on every zone file of up to
\* MaxLines lines of that hostname: the line of rA1, the line of rAAAA, or
\* a stale A line.
FamilyFiles ==
  { Join(ls) : ls \in SeqsUpTo({ recordToUnbound("h1", rA1), recordToUnbound("h1", rAAAA),
                                 StaleLine }, MaxLines) }

FamilyInit ==
  /\ file \in FamilyFiles
  /\ proc = "running"
  /\ zoneCall = NoCall
  /\ prevCall = Brief(NoCall)
  /\ nCalls = 0
  /\ managedRecords = ConfDual
  /\ \E opts \in TickPolicies :
       /\ statusOpts = opts
       /\ status = [r \in AllRecords |-> NewUnknownState(opts)]
  /\ run = [r \in {} |-> NoRun]
  /\ ControllerInit

SpecFamily == FamilyInit /\ [][TickNext]_vars

\* Failover specification: the ticks of the controller of one hostname,
\* under the policies FailoverPolicies, with the history of the runs kept.
SpecFailover == FailoverInit /\ [][TickNext]_vars

\* Load specification: the ticks of the controller on every configuration
\* that main accepts.
SpecLoad == LoadInit /\ [][TickNext]_vars

(***************************************************************************)
(* Run specification: the goroutine of the tick loop in run, with          *)
(* runHealthchecks taken apart into the start of each Eval goroutine, the  *)
(* Eval goroutines and wg.Wait, and with the cancellation of the context   *)
(* and the exit of the process.                                            *)
(***************************************************************************)
RunInit ==
  /\ file = <<>>
  /\ proc = "running"
  /\ zoneCall = NoCall
  /\ prevCall = Brief(NoCall)
  /\ nCalls = 0
  /\ managedRecords = ConfOne
  /\ \E opts \in TickPolicies :
       /\ statusOpts = opts
       /\ status = [r \in AllRecords |-> NewUnknownState(opts)]
  /\ run = [r \in {} |-> NoRun]
  /\ ControllerInit

\* the loop calls CheckRecords: before the loop, or when the ticker fired
\* while the loop waits in select
tickStart ==
  /\ proc = "running"
  /\ pc = "idle"
  /\ loop \in {"first", "loop"}
  /\ loop' = "loop"
  /\ pc' = "spawn"
  /\ spawnTodo' = Configured
  /\ spawned' = [r \in AllRecords |-> 0]
  /\ UNCHANGED <<zoneVars, fsmVars, unhealthyHosts, hostsTodo, restartServiceNeeded,
                 tickLog, svcCalls, errInc, lastInvalid, cancelled, evals>>

\* runHealthchecks: wg.Add(1); go candidate.Eval(ctx, wg), for the records of
\* a hostname in their order
spawnEval(r) ==
  /\ proc = "running"
  /\ pc = "spawn"
  /\ r \in spawnTodo
  /\ \E h \in DOMAIN managedRecords : \E i \in 1..Len(managedRecords[h]) :
       /\ managedRecords[h][i] = r
       /\ \A j \in 1..(i - 1) : managedRecords[h][j] \notin spawnTodo
  /\ evals[r] < MaxInFlight
  /\ spawnTodo' = spawnTodo \ {r}
  /\ evals' = [evals EXCEPT ![r] = @ + 1]
  /\ spawned' = [spawned EXCEPT ![r] = @ + 1]
  /\ UNCHANGED <<zoneVars, fsmVars, tickVars, cancelled, loop>>

\* an Eval goroutine of record r: its probe answers, the method of the
\* state is called, wg.Done
Eval(r, input) ==
  /\ proc = "running"
  /\ evals[r] > 0
  /\ status' = [status EXCEPT ![r] = EvalStatus(status[r], input)]
  /\ run' = [q \in DOMAIN run |-> IF q = r THEN RunAfter(status[r], run[r], input) ELSE run[q]]
  /\ evals' = [evals EXCEPT ![r] = @ - 1]
  /\ UNCHANGED <<zoneVars, managedRecords, statusOpts, tickVars, cancelled, loop,
                 spawnTodo, spawned>>

\* wg.Wait returning at once
WaitDone_NoWait == TRUE

\* wg.Wait returns: the counter of the WaitGroup is zero
WaitDone == \A r \in AllRecords : evals[r] = 0

\* the end of runHealthchecks: every Eval was started and wg.Wait returned
wgWait ==
  /\ proc = "running"
  /\ pc = "spawn"
  /\ spawnTodo = {}
  /\ WaitDone
  /\ pc' = "update"
  /\ hostsTodo' = DOMAIN managedRecords
  /\ restartServiceNeeded' = FALSE
  /\ UNCHANGED <<zoneVars, fsmVars, unhealthyHosts, tickLog, svcCalls, errInc,
                 lastInvalid, runVars>>

\* main gets a signal, or the metrics server fails, and calls cancel()
cancel ==
  /\ proc = "running"
  /\ ~cancelled
  /\ cancelled' = TRUE
  /\ UNCHANGED <<zoneVars, fsmVars, tickVars, loop, spawnTodo, evals, spawned>>

\* a select without the case ctx.Done()
loopReturn_NoDoneCase == FALSE /\ UNCHANGED vars

\* the loop, waiting in select, takes the case ctx.Done() and returns
loopReturn ==
  /\ proc = "running"
  /\ pc = "idle"
  /\ loop = "loop"
  /\ cancelled
  /\ loop' = "returned"
  /\ UNCHANGED <<zoneVars, fsmVars, tickVars, cancelled, spawnTodo, evals, spawned>>

\* main calls os.Exit after cancel(): when the loop has returned, or when
\* the 30 seconds it waits for that are over
osExit ==
  /\ proc = "running"
  /\ cancelled
  /\ proc' = "exited"
  /\ UNCHANGED <<file, zoneCall, prevCall, nCalls, nFaults, fsmVars, tickVars, runVars>>

RunNext ==
  \/ tickStart
  \/ \E r \in AllRecords : spawnEval(r)
  \/ \E r \in AllRecords : \E input \in Inputs : Eval(r, input)
  \/ wgWait
  \/ \E h \in Hosts : \E env \in FsEnv \ {"crash"} : \E vres \in {"ok", "fail"} :
       updateRecords(h, env, vres)
  \/ \E reloadRes \in {"ok", "notsupported", "err"} : \E restartRes \in {"ok", "err"} :
       restartService(reloadRes, restartRes)
  \/ noRestart
  \/ CheckRecordsReturn
  \/ cancel
  \/ loopReturn
  \/ osExit

SpecRun == RunInit /\ [][RunNext]_vars

\* The goroutine of the loop and the Eval goroutines are scheduled, and every
\* probe and every call of the tick returns (weak fairness of the steps of
\* a tick); select chooses among its ready cases at random, so the case
\* ctx.Done() is taken when it is ready again and again (strong fairness).
\* The first CheckRecords is called without waiting; nothing is assumed
\* about the ticker, the signal and the exit timer.
RunFairness ==
  /\ WF_vars(loop = "first" /\ tickStart)
  /\ WF_vars(\E r \in AllRecords : spawnEval(r))
  /\ WF_vars(\E r \in AllRecords : \E input \in Inputs : Eval(r, input))
  /\ WF_vars(wgWait)
  /\ WF_vars(\E h \in Hosts : \E env \in FsEnv \ {"crash"} : \E vres \in {"ok", "fail"} :
               updateRecords(h, env, vres))
  /\ WF_vars(\E reloadRes \in {"ok", "notsupported", "err"} : \E restartRes \in {"ok", "err"} :
               restartService(reloadRes, restartRes))
  /\ WF_vars(noRestart)
  /\ WF_vars(CheckRecordsReturn)
  /\ SF_vars(loopReturn)

SpecShutdown == RunInit /\ [][RunNext]_vars /\ RunFairness

(***************************************************************************)
(* Properties.                                                             *)
(***************************************************************************)
\* the text lines of a file: the pieces between newlines, a final newline
\* ending the last line
LinesOfFile(content) ==
  LET pieces == Split(content)
  IN  IF pieces[Len(pieces)] = <<>> THEN SubSeq(pieces, 1, Len(pieces) - 1) ELSE pieces

HLines(lines, hostname) == SelectSeq(lines, LAMBDA l : HasPrefix(l, hostname))

OtherLines(lines, hostname) == SelectSeq(lines, LAMBDA l : ~HasPrefix(l, hostname))

Count(lines, w) == Cardinality({ i \in 1..Len(lines) : lines[i] = w })

\* C1: after UpdateIps(H, desired) wrote the file and returned changed=true
\* without error, the lines of the file starting with local-data: "H  are
\* exactly the canonical lines of desired, each exactly once.
C1_HLinesAreDesiredOnce ==
  zoneCall.res = "ok" =>
    LET hl == HLines(LinesOfFile(file), zoneCall.host)
    IN  /\ Len(hl) = Cardinality(zoneCall.desired)
        /\ \A w \in wantedRecords(zoneCall.host, zoneCall.desired) : Count(hl, w) = 1

C7_SecondCallNoChange ==
  (/\ prevCall.res = "ok"
   /\ zoneCall.res # "none"
   /\ zoneCall.host = prevCall.host
   /\ zoneCall.desired = prevCall.desired)
    => (~zoneCall.changed /\ ~zoneCall.wrote)

\* C8: after a crash during or after WriteConf the file on disk is the
\* complete old content or the complete new content.
C8_CrashLeavesOldOrNew ==
  proc = "crashed" => file \in {zoneCall.before, WriteConf(zoneCall.conf)}

\* C4: a record that entered unhealthy, or got a U while unhealthy, is still
\* unhealthy after fewer than healthy_streak consecutive H inputs and healthy
\* after healthy_streak of them.
C4_HealthyAfterHealthyStreak ==
  \A r \in AllRecords :
    (run[r].from = UnhealthyStateName /\ run[r].kind \in {"entered", "reset"}) =>
      /\ run[r].n < statusOpts.HealthyStreak => status[r].name = UnhealthyStateName
      /\ run[r].n = statusOpts.HealthyStreak => status[r].name = HealthyStateName

\* C5: a record that entered healthy, or got an H while healthy, is still
\* healthy after fewer than unhealthy_streak consecutive U inputs and
\* unhealthy after unhealthy_streak of them.
C5_UnhealthyAfterUnhealthyStreak ==
  \A r \in AllRecords :
    (run[r].from = HealthyStateName /\ run[r].kind \in {"entered", "reset"}) =>
      /\ run[r].n < statusOpts.UnhealthyStreak => status[r].name = HealthyStateName
      /\ run[r].n = statusOpts.UnhealthyStreak => status[r].name = UnhealthyStateName

\* C6: an H in state healthy and a U in state unhealthy put the streak back
\* to the reset value of the state (the policy's unhealthy_streak), whatever
\* count the run before had reached; the record then stays in its state
\* until that many driving inputs have followed and leaves it with the last
\* of them.
C6_OppositeInputResetsStreak ==
  \A r \in AllRecords :
    run[r].kind = "reset" =>
      IF status[r].name = run[r].from
      THEN /\ run[r].n < statusOpts.UnhealthyStreak
           /\ status[r].currentStreak = statusOpts.UnhealthyStreak - run[r].n
      ELSE run[r].n = statusOpts.UnhealthyStreak

\* a run of driving inputs was interrupted by the opposite input, and the
\* record changed state only after a full new run of at least two inputs
C6_Witness ==
  \E r \in AllRecords :
    /\ run[r].kind = "reset"
    /\ run[r].lost >= 1
    /\ run[r].n >= 2
    /\ status[r].name # run[r].from

Families == {"A", "AAAA"}

\* the records of hostname h that are in state healthy, by family
HealthyOf(h, typ) ==
  { r \in Range(managedRecords[h]) : r.DnsType = typ /\ status[r].name = HealthyStateName }

\* C3: the records filterHealthyIps returned for a hostname in this tick are
\* records of the hostname, exactly one for each family that has a record in
\* state healthy and none for the other families; the one returned is
\* healthy and no healthy record of its family has a higher priority.
C3_OnePerFamilyMaxPriority ==
  \A h \in DOMAIN managedRecords :
    tickLog[h].done =>
      /\ tickLog[h].sel \subseteq Range(managedRecords[h])
      /\ \A typ \in Families :
           LET picked == { r \in tickLog[h].sel : r.DnsType = typ }
           IN  IF HealthyOf(h, typ) = {}
               THEN picked = {}
               ELSE /\ Cardinality(picked) = 1
                    /\ picked \subseteq HealthyOf(h, typ)
                    /\ \A r \in picked : \A q \in HealthyOf(h, typ) :
                         q.Priority <= r.Priority

\* a hostname with two healthy A records of different priority and a healthy
\* AAAA record, for which two records were returned
C3_Witness ==
  \E h \in DOMAIN managedRecords :
    /\ tickLog[h].done
    /\ Cardinality(HealthyOf(h, "A")) = 2
    /\ HealthyOf(h, "AAAA") # {}
    /\ Cardinality(tickLog[h].sel) = 2

ReloadCalled == \E i \in 1..Len(svcCalls) : svcCalls[i][1] = "Reload"

\* the reconcile of hostname h in this tick wrote the file, and the
\* validation that followed succeeded
WroteAndValidated(h) == tickLog[h].res = "ok" /\ tickLog[h].valid = "ok"

\* the tick is over: CheckRecords is about to return, or the process died
\* of a panic inside it
TickOver == pc = "return" \/ proc = "panicked"

\* C9: when a tick is over, Reload was called in it if and only if the
\* reconcile of some hostname wrote the file and had it validated; when no
\* reconcile reported a change, the Supervisor was not called at all.
C9_ReloadIffWroteAndValidated ==
  TickOver =>
    /\ ReloadCalled <=> (\E h \in DOMAIN managedRecords : WroteAndValidated(h))
    /\ (\A h \in DOMAIN managedRecords : ~tickLog[h].ret) => svcCalls = <<>>

\* C10: when UpdateIps wrote the file for a hostname and ValidateConfig
\* failed, the reconcile returns false and dns_invalid_config is counted
\* for the hostname, the file on disk is the file UpdateIps wrote, and the
\* reconcile of the next tick, given the same records and the file as it
\* was left, writes nothing and returns false.
C10_InvalidConfigKeptNoRetry ==
  \A h \in DOMAIN managedRecords :
    /\ (tickLog[h].res = "ok" /\ tickLog[h].valid = "fail") =>
         /\ ~tickLog[h].ret
         /\ <<h, "dns_invalid_config">> \in errInc
         /\ zoneCall.host = h => file = WriteConf(zoneCall.conf)
    /\ tickLog[h].repeat => (tickLog[h].res \notin {"ok", "writeerr"} /\ ~tickLog[h].ret)

\* C11: in a tick in which no record of a hostname is in state healthy, the
\* reconcile of the hostname does not call UpdateIps and leaves the zone
\* file, and so its lines of the hostname, as it found it.
C11_NoHealthyNoUpdate ==
  \A h \in DOMAIN managedRecords :
    (tickLog[h].done /\ \A typ \in Families : HealthyOf(h, typ) = {}) =>
      /\ tickLog[h].res = "none"
      /\ tickLog[h].same
      /\ ~tickLog[h].ret

\* every record of the hostname is unhealthy, the file holds lines of the
\* hostname, and the reconcile of the hostname is done
C11_Witness ==
  \E h \in DOMAIN managedRecords :
    /\ tickLog[h].done
    /\ \A r \in Range(managedRecords[h]) : status[r].name = UnhealthyStateName
    /\ HLines(LinesOfFile(file), h) # <<>>

\* C14: a record whose probe answered U on every tick since startup is
\* still initial after fewer than initial_unhealthy_streak ticks and
\* unhealthy after initial_unhealthy_streak of them.
C14_UnhealthyAfterInitialUnhealthyStreak ==
  \A r \in AllRecords :
    (run[r].from = InitialStateName /\ run[r].kind = "allU") =>
      /\ run[r].n < statusOpts.InitialUnhealthyStreak => status[r].name = InitialStateName
      /\ run[r].n = statusOpts.InitialUnhealthyStreak => status[r].name = UnhealthyStateName

\* the A record of hostname h with the highest priority
TopA(h) ==
  CHOOSE r \in Range(managedRecords[h]) :
    r.DnsType = "A" /\ \A q \in Range(managedRecords[h]) : q.DnsType = "A" => q.Priority <= r.Priority

\* C12: while the A record of highest priority of a hostname, healthy and
\* selected, fails its probe on every tick and a lower A record is healthy,
\* the record stays selected for fewer than unhealthy_streak failing ticks;
\* at the tick of the unhealthy_streak-th failure the lower record is
\* selected instead, and after a successful write the file holds the line
\* of the lower record and not the line of the higher one.
C12_FailoverAfterUnhealthyStreak ==
  \A h \in DOMAIN managedRecords : \A q \in Range(managedRecords[h]) :
    LET r == TopA(h)
    IN  (/\ tickLog[h].done
         /\ r \in DOMAIN run /\ q # r /\ q.DnsType = "A"
         /\ run[r].from = HealthyStateName /\ run[r].kind \in {"entered", "reset"}
         /\ status[q].name = HealthyStateName) =>
          /\ run[r].n < statusOpts.UnhealthyStreak => r \in tickLog[h].sel
          /\ run[r].n = statusOpts.UnhealthyStreak =>
               /\ tickLog[h].sel = {q}
               /\ tickLog[h].res = "ok" =>
                    /\ Count(LinesOfFile(file), recordToUnbound(h, q)) = 1
                    /\ Count(LinesOfFile(file), recordToUnbound(h, r)) = 0

\* C13: with every probe of a hostname answering H since startup, its
\* records are initial for fewer than initial_healthy_streak ticks and
\* healthy at the initial_healthy_streak-th tick; when at that tick the file
\* holds the lines of the selected records and no other line of the
\* hostname, the reconcile writes nothing and returns false, and no reload
\* follows.
C13_HealthyAfterInitialHealthyStreak ==
  \A h \in DOMAIN managedRecords :
    (/\ tickLog[h].done
     /\ \A r \in Range(managedRecords[h]) :
          r \in DOMAIN run /\ run[r].from = InitialStateName /\ run[r].kind = "allH") =>
      \A r \in Range(managedRecords[h]) :
        /\ run[r].n < statusOpts.InitialHealthyStreak =>
             status[r].name = InitialStateName /\ tickLog[h].sel = {}
        /\ run[r].n = statusOpts.InitialHealthyStreak =>
             /\ status[r].name = HealthyStateName
             /\ tickLog[h].sel # {}
             /\ (/\ zoneCall.host = h
                 /\ \A w \in wantedRecords(h, tickLog[h].sel) :
                      Count(LinesOfFile(zoneCall.before), w) >= 1
                 /\ \A i \in 1..Len(HLines(LinesOfFile(zoneCall.before), h)) :
                      HLines(LinesOfFile(zoneCall.before), h)[i]
                        \in wantedRecords(h, tickLog[h].sel)) =>
                  /\ ~zoneCall.wrote
                  /\ ~tickLog[h].ret
                  /\ tickLog[h].same
                  /\ pc = "return" => svcCalls = <<>>

\* the lines of the hostname of the last call in the file it found
HLinesBefore == HLines(LinesOfFile(zoneCall.before), zoneCall.host)

WantedOfCall == wantedRecords(zoneCall.host, zoneCall.desired)

\* C15: when UpdateIps read a file in which every desired line is present
\* and no other line starts with local-data: "H , it returns changed=false
\* without error and does not call WriteConf.
C15_AllPresentNoWrite ==
  (/\ zoneCall.res \notin {"none", "readerr"}
   /\ \A w \in WantedOfCall : Count(LinesOfFile(zoneCall.before), w) >= 1
   /\ \A i \in 1..Len(HLinesBefore) : HLinesBefore[i] \in WantedOfCall) =>
    /\ zoneCall.res = "noop"
    /\ ~zoneCall.changed
    /\ ~zoneCall.wrote
    /\ file = zoneCall.before

\* C16: when the file holds lines starting with local-data: "H  and none of
\* them is a desired line, a successful UpdateIps returns changed=true and
\* the file it wrote holds no other line of H and ends with the desired
\* lines, each once, after all other lines.
C16_AllMissingAppended ==
  (/\ zoneCall.res = "ok"
   /\ HLinesBefore # <<>>
   /\ \A i \in 1..Len(HLinesBefore) : HLinesBefore[i] \notin WantedOfCall) =>
    LET after == LinesOfFile(file)
        n == Cardinality(zoneCall.desired)
    IN  /\ zoneCall.changed /\ zoneCall.wrote
        /\ Len(after) >= n
        /\ \A w \in WantedOfCall : \E i \in (Len(after) - n + 1)..Len(after) : after[i] = w
        /\ \A i \in 1..(Len(after) - n) : ~HasPrefix(after[i], zoneCall.host)

\* the line differs from the line of record d in its TTL only
TtlDrift(line, d) ==
  /\ Len(line) = 1 /\ line[1].k = "rec"
  /\ line[1].host = d.Hostname /\ line[1].typ = d.DnsType
  /\ line[1].ip = IpString(d.Ip) /\ line[1].ttl # d.Ttl

AllDown(h) ==
  /\ \A r \in Range(managedRecords[h]) : status[r].name # HealthyStateName
  /\ \E r \in Range(managedRecords[h]) : status[r].name # InitialStateName

\* C18: after the reconcile of a hostname in a tick, and between the ticks,
\* unhealthyHosts[H] is true exactly when no record of H is healthy and some
\* record of H has left initial (the warning is logged where the flag is
\* set, the recovery message where it is cleared); with the flag set the
\* reconcile did not call UpdateIps.
C18_UnhealthyHostsTracksAllDown ==
  \A h \in DOMAIN managedRecords :
    (tickLog[h].done \/ pc \in {"idle", "return"}) =>
      /\ unhealthyHosts[h] <=> AllDown(h)
      /\ (tickLog[h].done /\ unhealthyHosts[h]) => tickLog[h].res = "none"

\* a hostname whose flag is set after its reconcile while another hostname,
\* reconciled in the same tick, has a healthy record and its flag clear
C18_Witness ==
  \E h, g \in DOMAIN managedRecords :
    /\ tickLog[h].done /\ tickLog[g].done
    /\ unhealthyHosts[h]
    /\ ~unhealthyHosts[g] /\ tickLog[g].sel # {}

\* C19: when WriteConf failed in the reconcile of a hostname, the reconcile
\* returned false without validating, update_ips was counted for the
\* hostname and the process runs on; the reconcile of the next tick that
\* selects records for the hostname calls UpdateIps again.
C19_WriteErrorCountedAndRetried ==
  \A h \in DOMAIN managedRecords :
    /\ tickLog[h].res = "writeerr" =>
         /\ ~tickLog[h].ret
         /\ tickLog[h].valid = "none"
         /\ <<h, "update_ips">> \in errInc
         /\ zoneCall.host = h => (proc = "running" /\ pc \in {"update", "return"})
         /\ pc = "return" =>
              (svcCalls # <<>> => \E g \in DOMAIN managedRecords : g # h /\ tickLog[g].ret)
    /\ tickLog[h].retry => tickLog[h].res # "none"

\* two hostnames: the write for the first failed, the second was reconciled
\* after it in the same tick, and in a later tick the reconcile of the first
\* wrote the file
C19_Witness ==
  \E h, g \in DOMAIN managedRecords :
    /\ g # h
    /\ tickLog[h].retry /\ tickLog[h].res = "ok" /\ tickLog[h].ret
    /\ tickLog[g].done

\* C20: after the reconcile of a hostname the gauges it set are:
\* configured_records_total the number of records configured for the
\* hostname, active_records_total the number of records selected, and
\* active_record 1 for the address of every selected record and 0 for the
\* address of every other record of the hostname.
C20_GaugesMatchSelection ==
  \A h \in DOMAIN managedRecords :
    tickLog[h].done =>
      LET m == tickLog[h].metrics
      IN  /\ m.ConfiguredRecords = Len(managedRecords[h])
          /\ m.ActiveRecords = Cardinality(tickLog[h].sel)
          /\ \A r \in Range(managedRecords[h]) :
               m.ActiveRecord[IpString(r.Ip)] = (IF r \in tickLog[h].sel THEN 1 ELSE 0)

\* the record type fits the address: A with IPv4, AAAA with IPv6
FamilyFits(typ, ip) == (typ = "A" /\ To4(ip)) \/ (typ = "AAAA" /\ ~To4(ip))

\* C21: NewDnsRecord returns an error exactly for the record configurations
\* whose type does not fit the address, so every managed record has a type
\* that fits its address, and so has every record line of the zone file.
C21_FamilyFitsAddress ==
  /\ \A c \in LoadRecordConfigs : NewDnsRecord(c).err <=> ~FamilyFits(c.RecordType, ParseIP(c.IP))
  /\ \A r \in Configured : FamilyFits(r.DnsType, r.Ip)
  /\ \A i \in 1..Len(file) :
       file[i].k = "rec" => FamilyFits(file[i].typ, ParseIP(file[i].ip))

\* C22: no UpdateIps call ends in a panic: the index handed to slices.Insert
\* is within the lines that remain after the stale lines were removed.
C22_UpdateIpsReturns == zoneCall.res # "panic" /\ proc # "panicked"

\* the desired lines of the last call that the lines read do not hold
MissingOfCall ==
  { w \in WantedOfCall : wantedIndex(zoneCall.read, zoneCall.host, w) = -1 }

\* C23: when UpdateIps wrote the file with some desired line present in the
\* lines read and some missing, the missing lines stand in the written
\* file immediately before the last present desired line.
C23_MissingBeforeAnchor ==
  (/\ zoneCall.res = "ok"
   /\ MissingOfCall # {}
   /\ WantedOfCall \ MissingOfCall # {}) =>
    LET after == LinesOfFile(file)
        n == Cardinality(MissingOfCall)
        anchor == Max({ i \in 1..Len(after) : after[i] \in WantedOfCall \ MissingOfCall })
    IN  /\ anchor > n
        /\ \A w \in MissingOfCall : \E i \in (anchor - n)..(anchor - 1) : after[i] = w

\* C24: with both initial thresholds at least 2, a record whose inputs since
\* startup are H and U in strict alternation is still initial, and its
\* streak is the initial threshold of its last input less one (the input
\* that flipped reset the streak before it was counted).
C24_AlternationStaysInitial ==
  \A r \in AllRecords :
    (/\ run[r].from = InitialStateName
     /\ run[r].kind \in {"altH", "altU"}
     /\ statusOpts.InitialHealthyStreak >= 2
     /\ statusOpts.InitialUnhealthyStreak >= 2) =>
      /\ status[r].name = InitialStateName
      /\ status[r].currentStreak =
           (IF run[r].kind = "altH" THEN statusOpts.InitialHealthyStreak
            ELSE statusOpts.InitialUnhealthyStreak) - 1

\* the step gave record r, in state healthy, an E that its run had not seen
ErrorInHealthy(r) ==
  /\ status[r].name = HealthyStateName
  /\ run'[r].from = HealthyStateName /\ run'[r].kind = "mixed"
  /\ (run[r].from # HealthyStateName \/ run[r].kind # "mixed")

\* the step gave record r, in state unhealthy, an E
ErrorInUnhealthy(r) ==
  /\ status[r].name = UnhealthyStateName
  /\ run'[r].from = UnhealthyStateName /\ run'[r].kind = "resetE" /\ run'[r].n = 0
  /\ run'[r] # run[r]

\* C25: a record that got only E inputs since startup is in the state it was
\* built in, with its streak; an E in state healthy decrements the streak and
\* moves the record to unhealthy, with the streak unhealthy_streak, when the
\* streak reaches 0; an E in state unhealthy leaves it unhealthy and puts
\* the streak back to unhealthy_streak.
C25_ErrorInputs ==
  /\ [](\A r \in AllRecords :
          (run[r].from = InitialStateName /\ run[r].kind = "allE") =>
            status[r] = NewUnknownState(statusOpts))
  /\ [][\A r \in AllRecords :
          /\ ErrorInHealthy(r) =>
               IF status[r].currentStreak - 1 <= 0
               THEN /\ status'[r].name = UnhealthyStateName
                    /\ status'[r].currentStreak = statusOpts.UnhealthyStreak
               ELSE status'[r] = [status[r] EXCEPT !.currentStreak = @ - 1]
          /\ ErrorInUnhealthy(r) =>
               status'[r] = [status[r] EXCEPT !.currentStreak = statusOpts.UnhealthyStreak]]_vars

\* one record became unhealthy by a run of two or more E and U inputs in
\* state healthy, another got only E inputs since startup
C25_Witness ==
  \E r, q \in AllRecords :
    /\ run[r].from = HealthyStateName /\ run[r].kind = "mixed" /\ run[r].n >= 2
    /\ status[r].name = UnhealthyStateName
    /\ run[q].kind = "allE"

\* the reconcile of hostname h in this tick called WriteConf
WroteFile(h) == tickLog[h].res \in {"ok", "writeerr"}

\* C26: in every step of a tick, the record states change only before any
\* selection of the tick is computed; a selection is computed only when no
\* reconcile of the tick has yet written the zone file; and the Service is
\* called only after every hostname was reconciled, with no write after it.
C26_PhasesOrdered ==
  [][/\ status' # status => \A h \in DOMAIN managedRecords : ~tickLog[h].done
     /\ \A h \in DOMAIN managedRecords :
          (tickLog'[h].done /\ ~tickLog[h].done) =>
            /\ status' = status
            /\ \A g \in DOMAIN managedRecords : ~WroteFile(g)
     /\ svcCalls # <<>> => file' = file
     /\ (svcCalls' # <<>> /\ svcCalls = <<>>) =>
          \A h \in DOMAIN managedRecords : tickLog[h].done]_vars

\* C27: no record ever has two Eval goroutines in flight or two started in
\* one tick; a step changes the state of one record only, and only as the
\* end of the one Eval of that record in flight; runHealthchecks returns only
\* when exactly one Eval was started for every managed record and none is
\* in flight; and CheckRecords is called only when none is in flight.
C27_OneEvalPerRecord ==
  /\ [](\A r \in AllRecords : evals[r] <= 1 /\ spawned[r] <= 1)
  /\ [][/\ \A r \in AllRecords :
             status'[r] # status[r] =>
               /\ evals[r] = 1 /\ evals'[r] = 0
               /\ \A q \in AllRecords \ {r} : status'[q] = status[q]
        /\ (pc = "spawn" /\ pc' = "update") =>
             \A r \in AllRecords :
               evals[r] = 0 /\ spawned[r] = (IF r \in Configured THEN 1 ELSE 0)
        /\ (pc = "idle" /\ pc' = "spawn") =>
             \A r \in AllRecords : evals[r] = 0]_vars

\* in a tick after the first, the Eval goroutines of two records are in
\* flight at once
C27_Witness ==
  \E r, q \in Configured :
    /\ r # q
    /\ evals[r] = 1 /\ evals[q] = 1
    /\ status[r].name # InitialStateName

\* C28: once the context is cancelled, the tick in progress computes no
\* selection, calls neither UpdateIps nor ValidateConfig, leaves the zone
\* file alone and calls neither Reload nor Restart.
C28_CancelSkipsRest ==
  [][(cancelled /\ pc # "return") =>
       /\ tickLog' = tickLog
       /\ zoneCall' = zoneCall
       /\ file' = file
       /\ svcCalls' = svcCalls]_vars

\* C29: after the context is cancelled the loop returns or the process
\* exits; the loop returns only between ticks, with no Eval in flight.
C29_ShutdownTerminates ==
  /\ cancelled ~> (loop = "returned" \/ proc # "running")
  /\ [][(loop' = "returned" /\ loop # "returned") =>
          (pc = "idle" /\ \A r \in AllRecords : evals[r] = 0)]_vars

\* the loop has returned after ticks in which a record became unhealthy
\* and the zone file was written
C29_Witness ==
  /\ loop = "returned"
  /\ proc = "running"
  /\ file # <<>>
  /\ \E r \in Configured : status[r].name = UnhealthyStateName

\* the calls of method m in svcCalls, with their results
CallsOf(m) == SelectSeq(svcCalls, LAMBDA c : c[1] = m)

\* C30: the calls made to the Service in a tick are none, or one Reload
\* that returned nil, or one Reload that returned an error followed by one
\* Restart; errors of the Service are counted as service_restart exactly
\* when Restart failed, and after them CheckRecords returns and the
\* process runs on.
C30_RestartIffReloadFailed ==
  /\ Len(CallsOf("Reload")) <= 1 /\ Len(CallsOf("Restart")) <= 1
  /\ CallsOf("Restart") # <<>> <=>
       (CallsOf("Reload") # <<>> /\ CallsOf("Reload")[1][2] = "error")
  /\ CallsOf("Restart") # <<>> =>
       /\ svcCalls = CallsOf("Reload") \o CallsOf("Restart")
       /\ (<<"", "service_restart">> \in errInc <=> CallsOf("Restart")[1][2] = "error")
  /\ svcCalls # <<>> => (proc = "running" /\ pc = "return")

\* Reload and Restart both failed in a tick that follows a tick with a
\* failed write, and CheckRecords is about to return
C30_Witness ==
  /\ CallsOf("Reload") # <<>> /\ CallsOf("Restart") # <<>>
  /\ CallsOf("Restart")[1][2] = "error"
  /\ pc = "return" /\ proc = "running"
  /\ \E h \in DOMAIN managedRecords : tickLog[h].ret /\ tickLog[h].retry

\* hostname h was reconciled in the tick and its reconcile met a read, a
\* write or a validation error
ReconcileFailed(h) ==
  /\ tickLog[h].done
  /\ tickLog[h].res \in {"readerr", "writeerr"} \/ tickLog[h].valid = "fail"

\* C31: a read, write or validation error in the reconcile of one hostname
\* leaves the process running and every other hostname of the tick still to
\* be reconciled, and keeps the change flag another hostname has set; a tick
\* with such an error returns with every hostname reconciled and, when
\* another hostname reported a change, with Reload called; the process ends
\* through a panic of UpdateIps only, never through an error.
C31_ErrorsDoNotEndLoop ==
  /\ [][\A h \in DOMAIN managedRecords :
          (~tickLog[h].done /\ ReconcileFailed(h)') =>
            /\ proc' = "running" /\ pc' = "update"
            /\ hostsTodo' = hostsTodo \ {h}
            /\ restartServiceNeeded' = restartServiceNeeded]_vars
  /\ [](pc = "return" /\ (\E h \in DOMAIN managedRecords : ReconcileFailed(h)) =>
          /\ \A g \in DOMAIN managedRecords : tickLog[g].done
          /\ (\E g \in DOMAIN managedRecords : tickLog[g].ret) <=> ReloadCalled)
  /\ [](proc # "running" => zoneCall.res = "panic")
  /\ [](proc = "running" /\ pc = "idle" =>
          ENABLED (\E in \in [Configured -> Inputs] : runHealthchecks(in)))

\* CheckRecords is about to return from a tick in which the reconcile of
\* one hostname failed and the reconcile of another hostname, made after
\* it, reported a change, and Reload was called
C31_Witness ==
  /\ pc = "return" /\ proc = "running"
  /\ \E h, g \in DOMAIN managedRecords :
       /\ g # h
       /\ ReconcileFailed(h)
       /\ tickLog[g].ret
  /\ ReloadCalled

\* C32: an Eval with a TCP health check feeds the state machine H when the
\* dial connected or was refused, U when the dial timed out, and E when
\* the dial failed with another error; so a record in state Initial whose
\* dial times out is moved as by an unhealthy answer.
C32_TcpProbeInputs ==
  [][\A r \in RecordsOf("h2") :
       /\ (TcpEval(r, "connected") \/ TcpEval(r, "refused")) =>
            status'[r] = EvalStatus(status[r], "H")
       /\ TcpEval(r, "timeout") => status'[r] = EvalStatus(status[r], "U")
       /\ TcpEval(r, "ioerr") => status'[r] = EvalStatus(status[r], "E")]_vars

\* C33: every Eval whose probe returned an error increments the counter
\* Errors with the hostname of its record as label.
C33_ProbeErrorCounted ==
  [][\A r \in Configured :
       Eval(r, "E") => \E e \in errInc' \ errInc : e[1] = r.Hostname]_vars

\* the states the methods of the states hand to SetState under the policy
\* of the record
SetStateArgs ==
  { newHealthy(statusOpts.HealthyStreak, statusOpts.UnhealthyStreak),
    newUnhealthy(statusOpts.HealthyStreak, statusOpts.UnhealthyStreak) }

\* C34: an input never takes a record that is healthy or unhealthy back to
\* state Initial, and whenever an input changes the state of a record, the
\* new state is a fresh healthy or unhealthy state whose streak is a
\* threshold of the policy and at least 1.
C34_NeverBackToInitial ==
  [][\A r \in RecordsOf("h2") :
       /\ status[r].name # InitialStateName =>
            status'[r].name \in {HealthyStateName, UnhealthyStateName}
       /\ status'[r].name # status[r].name =>
            /\ status'[r] \in SetStateArgs
            /\ status'[r].currentStreak \in
                 {statusOpts.HealthyStreak, statusOpts.UnhealthyStreak}
            /\ status'[r].currentStreak >= 1]_vars

\* a record that had left state Initial and was healthy has been moved to
\* unhealthy by a run of inputs that started over after a healthy answer
C34_Witness ==
  \E r \in RecordsOf("h2") :
    /\ run[r].from = HealthyStateName
    /\ status[r].name = UnhealthyStateName
    /\ run[r].lost >= 1

\* the lines of the zone file that start with local-data: "h  and belong to
\* an address family other than those of the records S
OtherFamilyLines(h, S) ==
  SelectSeq(HLines(LinesOfFile(file), h),
            LAMBDA l : \A r \in S : l[1].typ # r.DnsType)

\* C35: when the reconcile of a hostname selected records of one address
\* family only and met no read or write error, the zone file holds no line
\* of that hostname of the other family afterwards; when it selected no
\* record at all, the zone file is left as it was.
C35_FailStaticOnlyTotalOutage ==
  \A h \in DOMAIN managedRecords :
    tickLog[h].done =>
      /\ (tickLog[h].sel # {} /\ tickLog[h].res \notin {"readerr", "writeerr"}) =>
           OtherFamilyLines(h, tickLog[h].sel) = <<>>
      /\ tickLog[h].sel = {} => tickLog[h].same

====
